---- MODULE Spec2Model ----
(***************************************************************************)
(* Model of the PhotonIQ backend (src/backend/server.js): the serial       *)
(* ingestion handler, the weather refresher, the forecast job, the         *)
(* in-memory slots and the Firebase store they mirror to.                  *)
(*                                                                         *)
(* Numbers are JavaScript numbers kept in thousandths: Num(5000) is 5.0.   *)
(* Date.now() is the variable now (milliseconds since the process began).  *)
(***************************************************************************)
EXTENDS Integers, Sequences, FiniteSets, TLC

\* ------------------------------------------------------------------ bounds
\* readings the serial handler accepts in one run
MaxReadings == 2
\* largest value of the clock
MaxClock == 1
\* weather requests that may be outstanding at once
MaxInFlight == 2

\* ------------------------------------------------------- JavaScript values
NoFields == [k \in {} |-> 0]

Prim(type, num, str) == [t |-> type, n |-> num, s |-> str]
Undefined == Prim("undefined", 0, "")
Null      == Prim("null", 0, "")
NaN       == Prim("NaN", 0, "")
Num(k)    == Prim("number", k, "")
Whole(i)  == Num(i * 1000)
Str(x)    == Prim("string", 0, x)
Bool(b)   == Prim("boolean", IF b THEN 1 ELSE 0, "")

\* a top-level value: a primitive (o is empty) or an object with fields o
Val(p)    == [t |-> p.t, n |-> p.n, s |-> p.s, o |-> NoFields]
Obj(f)    == [t |-> "object", n |-> 0, s |-> "", o |-> f]

\* JavaScript truthiness (the operand of ||, if)
Truthy(p) ==
  CASE p.t = "number"  -> p.n # 0
    [] p.t = "string"  -> p.s # ""
    [] p.t = "boolean" -> p.n = 1
    [] p.t = "object"  -> TRUE
    [] OTHER           -> FALSE

\* data.key : undefined when the key is absent or data is a primitive
Get(v, key) == IF v.t = "object" /\ key \in DOMAIN v.o THEN v.o[key] ELSE Undefined

\* data.key = p : silently without effect on a primitive (sloppy mode)
SetField(v, key, p) ==
  IF v.t = "object"
    THEN [v EXCEPT !.o = [j \in (DOMAIN v.o) \cup {key} |-> IF j = key THEN p ELSE v.o[j]]]
    ELSE v

\* property access on null or undefined throws a TypeError
ThrowsOnAccess(v) == v.t \in {"null", "undefined"}

\* ------------------------------------------------------------ serial lines
\* A line of text is described by what the handler observes of it: whether
\* it has leading/trailing whitespace, whether its first non-blank character
\* is '{', and what JSON.parse makes of it (a value, or a SyntaxError).
SyntaxError == [ok |-> FALSE, val |-> Val(Undefined)]
Parsed(v)   == [ok |-> TRUE, val |-> v]

Text(lead, brace, parsed) == [lead |-> lead, brace |-> brace, parsed |-> parsed]

Telemetry(power) ==
  [voltage |-> Num(5000), current |-> Whole(1000), power |-> power,
   angleH |-> Whole(90), angleV |-> Whole(90), light |-> Whole(50),
   dustAlert |-> Bool(FALSE), dustRaw |-> Whole(700)]

\* {"voltage":5.0,"current":1000,"power":5.0,"angleH":90,...,"dustRaw":700}
LineValid5 == Text(FALSE, TRUE, Parsed(Obj(Telemetry(Num(5000)))))
\* the same with power 6.0 and a leading blank: " {...}"
LineValid6 == Text(TRUE, TRUE, Parsed(Obj(Telemetry(Num(6000)))))
\* garbage
LineGarbage == Text(FALSE, FALSE, SyntaxError)
\* 42  (text that is JSON but not an object)
LineNumber == Text(FALSE, FALSE, Parsed(Val(Whole(42))))
\* {"status":"ready"}
LineStatus == Text(FALSE, TRUE, Parsed(Obj([status |-> Str("ready")])))
\* {"error":"INA219 not found"}
LineError == Text(FALSE, TRUE, Parsed(Obj([error |-> Str("INA219 not found")])))
\* {"voltage":5.0,"curr      (cut off)
LineCut == Text(FALSE, TRUE, SyntaxError)
\* {"voltage":5.0}
LinePartial == Text(FALSE, TRUE, Parsed(Obj([voltage |-> Num(5000)])))
\* the telemetry line with "power":"high"
LineWrongType == Text(FALSE, TRUE, Parsed(Obj(Telemetry(Str("high")))))
\* {"status":""}
LineEmptyStatus == Text(FALSE, TRUE, Parsed(Obj([status |-> Str("")])))
\* the telemetry line with an extra "timestamp":99
LineStamped ==
  Text(FALSE, TRUE, Parsed(SetField(Obj(Telemetry(Num(5000))), "timestamp", Whole(99))))

\* the telemetry line with power 10.0
LineValid10 == Text(FALSE, TRUE, Parsed(Obj(Telemetry(Whole(10)))))
\* the power 10.0 line in dim light: "light":20
LineDim ==
  Text(FALSE, TRUE, Parsed(Obj([Telemetry(Whole(10)) EXCEPT !.light = Whole(20)])))
\* the telemetry line with "power":-2.0
LineNegative == Text(FALSE, TRUE, Parsed(Obj(Telemetry(Whole(-2)))))

\* the telemetry line with an extra member "sensor.id":1
LineDottedKey ==
  Text(FALSE, TRUE, Parsed(SetField(Obj(Telemetry(Num(5000))), "sensor.id", Whole(1))))
\* the telemetry line with an extra "status":"calibrating"
LineFullStatus ==
  Text(FALSE, TRUE, Parsed(SetField(Obj(Telemetry(Num(5000))), "status", Str("calibrating"))))
\* the telemetry line with an extra "error":"INA219 not found"
LineFullError ==
  Text(FALSE, TRUE, Parsed(SetField(Obj(Telemetry(Num(5000))), "error", Str("INA219 not found"))))
\* the telemetry line with power 6.0 and an extra "error":null
LineNullError ==
  Text(FALSE, TRUE, Parsed(SetField(Obj(Telemetry(Num(6000))), "error", Null)))
\* the telemetry line with power 10.0 and an extra "status":0
LineZeroStatus ==
  Text(FALSE, TRUE, Parsed(SetField(Obj(Telemetry(Whole(10))), "status", Whole(0))))
\* the telemetry line with power -2.0 and an extra "error":false
LineFalseError ==
  Text(FALSE, TRUE, Parsed(SetField(Obj(Telemetry(Whole(-2))), "error", Bool(FALSE))))

\* lines the device protocol foresees: telemetry, banners, status and error
NominalLines == {LineValid5, LineValid6, LineGarbage, LineNumber, LineStatus,
                 LineError, LineCut}
Lines == NominalLines \cup {LinePartial, LineWrongType, LineEmptyStatus, LineStamped}
\* one line for each path through the handler, and each kind of accepted record
IngestLines == Lines \ {LineNumber, LineError, LineWrongType}
\* telemetry the store takes, and telemetry whose extra key it refuses
SlotLines == {LineValid5, LineValid6, LineDottedKey}
\* telemetry with a status or error member of either truthiness
FlagLines == {LineValid5, LineFullStatus, LineFullError, LineNullError, LineEmptyStatus,
              LineZeroStatus, LineFalseError}
\* the readings the forecast is computed from
ForecastLines == {LineValid10, LineDim, LineNegative, LineWrongType}

\* mutant: the handler forgets to trim
trim_Missing(line) == line

\* line.trim()
trim(line) == [line EXCEPT !.lead = FALSE]

\* mutant: no test of the first character
startsWithBrace_Any(line) == TRUE

\* line.startsWith('{')
startsWithBrace(line) == ~line.lead /\ line.brace

\* JSON.parse(line): leading and trailing whitespace is skipped by the grammar
JSONparse(line) == line.parsed


\* ------------------------------------------------------------------- state
VARIABLES
  process,          \* "running" | "crashed"
  started,          \* the app.listen callback has run
  serial,           \* "none" | "opening" | "open" | "failed" | "closed"
  now,              \* Date.now()
  latestReading,    \* the three in-memory slots
  weatherCache,
  predictionCache,
  db,               \* the store: solarData/live, weather, prediction, history
  unhandled,        \* a rejected write promise nobody handles is waiting to be reported
  fetching,         \* weather requests outstanding
  lineSeq,          \* history variables: alternates with every line processed,
  lastLine,         \*   the line processed last,
  accepted,         \*   the reading lines processed so far, with their times,
  lastResp,         \*   the weather response handled last
  silent,           \* outstanding weather requests the API never answers
  reply,            \* the response the query surface sent last
  sketch,           \* the firmware on the board: "solar_tracker" | "single_servo"
  angleH,           \* solar_tracker.ino: current horizontal angle
  angleV,           \*   current vertical angle
  pos,              \* single-servo sketch: servo position
  sensed,           \* history variable: the LDR values read by the last firmware step
  emitted           \* what the last firmware step did: servo writes, lines printed

slots == <<latestReading, weatherCache, predictionCache>>
ghost == <<lineSeq, lastLine, accepted, lastResp>>
quiet == <<silent, reply>>
server == <<process, started, serial, now, latestReading, weatherCache,
            predictionCache, db, unhandled, fetching, lineSeq, lastLine,
            accepted, lastResp, silent, reply>>
board == <<sketch, angleH, angleV, pos, sensed, emitted>>
vars  == <<server, board>>

\* mutant: the request is made synchronously, handlers wait for its answer
eventLoopFree_Blocked == fetching = 0

\* fetchWeather is an async function: at await axios.get(...) it returns to
\* the event loop, which goes on running the other handlers
eventLoopFree == TRUE

\* ------------------------------------------------------------------- store
\* keys Firebase refuses: they contain one of . $ # [ ] /
InvalidKeys == {"sensor.id"}

\* set()/push() validate their argument and throw synchronously on undefined,
\* NaN or an invalid key
dbValid(v) ==
  /\ v.t \notin {"undefined", "NaN"}
  /\ \A k \in DOMAIN v.o : k \notin InvalidKeys /\ v.o[k].t \notin {"undefined", "NaN"}

\* mutant: the slot is updated in place and keeps the timestamp it had
replaceSlot_InPlace(old, new) ==
  IF "o" \in DOMAIN new
    THEN IF "timestamp" \in DOMAIN old.o
           THEN SetField(new, "timestamp", Get(old, "timestamp")) ELSE new
    ELSE [new EXCEPT !.timestamp = old.timestamp]

\* latestReading = data; weatherCache = {...}; predictionCache = {...}: the
\* variable is bound to the new object, the old one is not touched
replaceSlot(old, new) == new

\* mutant: the write goes to one fixed child, like set() on the live record
push_Overwrite(entries, v) ==
  IF entries = <<>> THEN <<v>> ELSE [entries EXCEPT ![Len(entries)] = v]

\* db.ref('solarData/history').push(data): a new child under a fresh key that
\* sorts after every earlier key
push(entries, v) == Append(entries, v)

\* mutant: no try statement around the block
tryCatch_Absent(threw) == threw

\* try { ... } catch (e) { ... }: whether an exception thrown in the block
\* leaves the statement; the catch clauses of this program only log
tryCatch(threw) == FALSE

\* an exception that leaves an event handler is an uncaught exception: the
\* process ends
afterHandler(escaped) == IF escaped THEN "crashed" ELSE "running"

\* ---------------------------------------------------------------- ingestion
\* mutant: the presence of the members is tested ('error' in data)
isDeviceMessage_KeyPresent(data) == {"error", "status"} \cap DOMAIN data.o # {}

\* mutant: only data.error is tested
isDeviceMessage_ErrorOnly(data) == Truthy(Get(data, "error"))

\* if (data.error || data.status)
isDeviceMessage(data) == Truthy(Get(data, "error")) \/ Truthy(Get(data, "status"))

\* mutant: data.timestamp = data.timestamp || Date.now()
stamp_KeepSupplied(data, t) ==
  IF Truthy(Get(data, "timestamp")) THEN data ELSE SetField(data, "timestamp", Whole(t))

\* data.timestamp = Date.now()
stamp(data, t) == SetField(data, "timestamp", Whole(t))

\* what the 'data' handler does with one line: the reading it stores (if
\* any), whether the two store writes are issued, whether the try block threw
handle(line, t) ==
  LET l == trim(line)
      ignore == [reading |-> FALSE, data |-> Val(Undefined), writes |-> FALSE, threw |-> FALSE]
  IN  IF ~startsWithBrace(l) THEN ignore
      ELSE LET p == JSONparse(l) IN
        IF ~p.ok THEN [ignore EXCEPT !.threw = TRUE]
        ELSE IF ThrowsOnAccess(p.val) THEN [ignore EXCEPT !.threw = TRUE]
        ELSE IF isDeviceMessage(p.val) THEN ignore
        ELSE LET data == stamp(p.val, t) IN
          [reading |-> TRUE, data |-> data, writes |-> dbValid(data),
           threw |-> ~dbValid(data)]

\* the reading lines, as the device protocol defines them (used only to keep
\* the history variable accepted)
ReadingLine(line) ==
  /\ line.brace
  /\ line.parsed.ok
  /\ line.parsed.val.t = "object"
  /\ ~Truthy(Get(line.parsed.val, "error"))
  /\ ~Truthy(Get(line.parsed.val, "status"))

\* mutant: the handler also refreshes the forecast from the new reading
OnData_Recomputing(line, liveAcks, pushAcks) ==
  /\ process = "running"
  /\ eventLoopFree
  /\ serial = "open"
  /\ Len(accepted) + (IF ReadingLine(line) THEN 1 ELSE 0) <= MaxReadings
  /\ lineSeq' = 1 - lineSeq
  /\ lastLine' = line
  /\ accepted' = IF ReadingLine(line)
                   THEN Append(accepted, [line |-> line, at |-> now])
                   ELSE accepted
  /\ LET h == handle(line, now) IN
       /\ latestReading' = IF h.reading THEN h.data ELSE latestReading
       /\ predictionCache' =
            IF h.reading /\ predictionCache.forecast # <<>>
              THEN [predictionCache EXCEPT
                      !.predicted_power = Get(h.data, "power")]
              ELSE predictionCache
       /\ process' = afterHandler(tryCatch(h.threw))
       /\ IF h.writes
            THEN \E okLive \in liveAcks, okPush \in pushAcks :
                   /\ db' = [db EXCEPT
                               !.live = IF okLive THEN h.data ELSE @,
                               !.history = IF okPush THEN push(@, h.data) ELSE @]
                   /\ unhandled' = (unhandled \/ ~okLive \/ ~okPush)
            ELSE UNCHANGED <<db, unhandled>>
  /\ UNCHANGED <<board, quiet, started, serial, now, weatherCache, fetching, lastResp>>

\* parser.on('data', ...): liveAcks and pushAcks are the answers the store
\* may give to the two writes (TRUE acknowledged, FALSE rejected)
OnData(line, liveAcks, pushAcks) ==
  /\ process = "running"
  /\ eventLoopFree
  /\ serial = "open"
  /\ Len(accepted) + (IF ReadingLine(line) THEN 1 ELSE 0) <= MaxReadings
  /\ lineSeq' = 1 - lineSeq
  /\ lastLine' = line
  /\ accepted' = IF ReadingLine(line)
                   THEN Append(accepted, [line |-> line, at |-> now])
                   ELSE accepted
  /\ LET h == handle(line, now) IN
       /\ latestReading' = IF h.reading THEN replaceSlot(latestReading, h.data)
                                      ELSE latestReading
       /\ process' = afterHandler(tryCatch(h.threw))
       /\ IF h.writes
            THEN \E okLive \in liveAcks, okPush \in pushAcks :
                   /\ db' = [db EXCEPT
                               !.live = IF okLive THEN h.data ELSE @,
                               !.history = IF okPush THEN push(@, h.data) ELSE @]
                   /\ unhandled' = (unhandled \/ ~okLive \/ ~okPush)
            ELSE UNCHANGED <<db, unhandled>>
  /\ UNCHANGED <<board, quiet, started, serial, now, weatherCache, predictionCache, fetching,
                 lastResp>>

\* port 'open' event
SerialOpen ==
  /\ process = "running"
  /\ serial = "opening"
  /\ serial' = "open"
  /\ UNCHANGED <<board, quiet, process, started, now, slots, db, unhandled, fetching, ghost>>

\* port 'error' event when the device cannot be opened: the listener logs
SerialOpenError ==
  /\ process = "running"
  /\ serial = "opening"
  /\ serial' = "failed"
  /\ UNCHANGED <<board, quiet, process, started, now, slots, db, unhandled, fetching, ghost>>

\* the device is unplugged mid-stream: the port closes, nothing listens for it
SerialDisconnect ==
  /\ process = "running"
  /\ serial = "open"
  /\ serial' = "closed"
  /\ UNCHANGED <<board, quiet, process, started, now, slots, db, unhandled, fetching, ghost>>

\* time passes
Tick ==
  /\ now < MaxClock
  /\ now' = now + 1
  /\ UNCHANGED <<board, quiet, process, started, serial, slots, db, unhandled, fetching, ghost>>

\* Node reports the unhandled rejection of a write promise: from Node 15 on
\* (the README asks for v18+) that ends the process
UnhandledRejection ==
  /\ process = "running"
  /\ unhandled
  /\ process' = "crashed"
  /\ UNCHANGED <<board, quiet, started, serial, now, slots, db, unhandled, fetching, ghost>>

\* ------------------------------------------------------------------ weather
\* the body of a 2xx answer of the weather API, by the members fetchWeather reads
Payload(main, clouds, weather0, wind) ==
  [main |-> main, clouds |-> clouds, weather0 |-> weather0, wind |-> wind]

PayloadClouds(c) ==
  Payload(Obj([temp |-> Num(32400), humidity |-> Whole(65)]), Obj([all |-> Whole(c)]),
          Obj([description |-> Str("few clouds")]), Obj([speed |-> Num(3200)]))
\* a body without "main"
PayloadNoMain ==
  Payload(Val(Undefined), Obj([all |-> Whole(20)]),
          Obj([description |-> Str("few clouds")]), Obj([speed |-> Num(3200)]))
\* a body whose "clouds" object has no "all"
PayloadNoAll ==
  Payload(Obj([temp |-> Num(32400), humidity |-> Whole(65)]), Obj(NoFields),
          Obj([description |-> Str("few clouds")]), Obj([speed |-> Num(3200)]))

\* what axios.get settles with: it rejects on a network error and on a
\* status outside 2xx
Response(kind, body) == [kind |-> kind, body |-> body]
RespNetworkError == Response("network error", PayloadNoMain)
RespHttp401      == Response("status 401", PayloadNoMain)
FailedResponses  == {RespNetworkError, RespHttp401}
Responses ==
  FailedResponses \cup
  {Response("ok", b) : b \in {PayloadClouds(0), PayloadClouds(40), PayloadNoMain, PayloadNoAll}}

axiosRejects(resp) == resp.kind # "ok"

\* the object literal of lines 125-132
snapshotOf(body, t) ==
  Obj([temp |-> Get(body.main, "temp"), humidity |-> Get(body.main, "humidity"),
       clouds |-> Get(body.clouds, "all"),
       description |-> Get(body.weather0, "description"),
       windSpeed |-> Get(body.wind, "speed"), timestamp |-> Whole(t)])

\* what fetchWeather does once axios.get has settled: whether it replaces the
\* slot and with what, whether the store write is issued, whether the try
\* block threw
settle(resp, t) ==
  LET keep == [replace |-> FALSE, cache |-> Obj(NoFields), write |-> FALSE, threw |-> TRUE]
  IN  IF axiosRejects(resp) THEN keep
      ELSE IF \E m \in {resp.body.main, resp.body.clouds, resp.body.weather0, resp.body.wind} :
                ThrowsOnAccess(m)
        THEN keep
      ELSE LET w == snapshotOf(resp.body, t) IN
        [replace |-> TRUE, cache |-> w, write |-> dbValid(w), threw |-> ~dbValid(w)]

\* fetchWeather() up to its await: the request is sent
fetchWeatherStart ==
  /\ fetching < MaxInFlight
  /\ fetching' = fetching + 1

\* fetchWeather() after its await.  A rejection of the function's own
\* promise has no handler at the startup call.
WeatherResponse(resp, acks) ==
  /\ process = "running"
  /\ fetching > silent
  /\ fetching' = fetching - 1
  /\ lastResp' = resp
  /\ LET r == settle(resp, now) IN
       /\ weatherCache' = IF r.replace THEN replaceSlot(weatherCache, r.cache)
                                   ELSE weatherCache
       /\ IF r.write
            THEN \E ok \in acks :
                   /\ db' = [db EXCEPT !.weather = IF ok THEN r.cache ELSE @]
                   /\ unhandled' = (unhandled \/ ~ok \/ tryCatch(r.threw))
            ELSE /\ db' = db
                 /\ unhandled' = (unhandled \/ tryCatch(r.threw))
  /\ UNCHANGED <<board, quiet, process, started, serial, now, latestReading, predictionCache,
                 lineSeq, lastLine, accepted>>

\* the API goes silent on one outstanding request: axios.get is called
\* without a timeout, its promise then stays pending
ApiSilent ==
  /\ process = "running"
  /\ silent < fetching
  /\ silent' = silent + 1
  /\ UNCHANGED <<board, reply, process, started, serial, now, slots, db, unhandled,
                 fetching, ghost>>

\* cron.schedule('*/10 * * * *', fetchWeather)
CronWeather ==
  /\ process = "running"
  /\ started
  /\ fetchWeatherStart
  /\ UNCHANGED <<board, quiet, process, started, serial, now, slots, db, unhandled, ghost>>

\* ----------------------------------------------------------------- forecast
\* hourlyFactor, in hundredths, for the hours 0..23
hourlyFactor ==
  <<0, 0, 0, 0, 0, 5,  10, 20, 35, 55, 75, 90,
    100, 95, 85, 70, 50, 30,  10, 5, 0, 0, 0, 0>>

\* hours of the day the model lets new Date().getHours() return
Hours == {11, 21}

\* mutant: the operand is used without a default
orZero_Missing(p) == p

\* x || 0
orZero(p) == IF Truthy(p) THEN p ELSE Whole(0)

\* the number a truthy value becomes in a product (the strings of the model
\* are not numerals)
toNumber(p) ==
  CASE p.t = "number"  -> p
    [] p.t = "boolean" -> Whole(p.n)
    [] p.t = "null"    -> Whole(0)
    [] p.t = "string"  -> IF p.s = "" THEN Whole(0) ELSE NaN
    [] OTHER           -> NaN

\* x / d rounded to the nearest integer, halves upwards (Math.round, and
\* toFixed for x >= 0)
RoundDiv(x, d) == (2 * x + d) \div (2 * d)

\* 1 - (clouds / 100) * 0.7, in thousandths; clouds is a whole percentage
cloudFactor(clouds) ==
  LET c == toNumber(orZero(clouds)) IN
    IF c.t = "NaN" THEN NaN ELSE Num(1000 - (7 * c.n) \div 1000)

\* mutant: the headline gets the 10% tracking boost too
predictedPower_AlwaysBoosted(base, factor, cf, boost) ==
  IF base.t = "NaN" \/ cf.t = "NaN" THEN NaN
  ELSE LET b == base.n * factor * cf.n IN
    IF b <= 0 THEN Num(0)
    ELSE Num(11 * (b \div 1000000) + RoundDiv(11 * (b % 1000000), 1000000))

\* Math.max(0, parseFloat((basePower * factor * cloudFactor * boost).toFixed(3)))
\* with factor in hundredths and boost in tenths; a negative product gives 0
predictedPower(base, factor, cf, boost) ==
  IF base.t = "NaN" \/ cf.t = "NaN" THEN NaN
  ELSE LET b == base.n * factor * cf.n IN
    IF b <= 0 THEN Num(0)
    ELSE Num(boost * (b \div 1000000) + RoundDiv(boost * (b % 1000000), 1000000))

\* mutant: Math.round(cloudFactor * 100)
confidenceOf_Percent(cf) == IF cf.t = "NaN" THEN NaN ELSE Whole(RoundDiv(cf.n * 100, 1000))

\* Math.round(cloudFactor * 90)
confidenceOf(cf) == IF cf.t = "NaN" THEN NaN ELSE Whole(RoundDiv(cf.n * 90, 1000))

\* `${futureHour}:00`
labelOf(h) == <<h, ":00">>

\* mutant: the base power is scaled by the light level (lightPct, line 159)
forecastOf_UsesLight(reading, weather, hour, t) ==
  LET cf   == cloudFactor(Get(weather, "clouds"))
      p    == toNumber(orZero(Get(reading, "power")))
      l    == toNumber(orZero(Get(reading, "light")))
      base == IF p.t = "NaN" \/ l.t = "NaN" THEN NaN ELSE Num((p.n * l.n) \div 100000)
      entry(i) == LET futureHour == (hour + i) % 24 IN
                    [hour |-> futureHour, label |-> labelOf(futureHour),
                     predicted |-> predictedPower(base, hourlyFactor[futureHour + 1], cf, 11)]
      nextHour == (hour + 1) % 24
  IN  [predicted_power |-> predictedPower(base, hourlyFactor[nextHour + 1], cf, 10),
       confidence |-> confidenceOf(cf),
       peak_hour |-> Whole(12),
       forecast |-> [i \in 1..6 |-> entry(i)],
       timestamp |-> Whole(t)]

\* mutant: the loop runs over the offsets 0..5
forecastOf_FromZero(reading, weather, hour, t) ==
  LET cf   == cloudFactor(Get(weather, "clouds"))
      base == toNumber(orZero(Get(reading, "power")))
      entry(i) == LET futureHour == (hour + i - 1) % 24 IN
                    [hour |-> futureHour, label |-> labelOf(futureHour),
                     predicted |-> predictedPower(base, hourlyFactor[futureHour + 1], cf, 11)]
      nextHour == (hour + 1) % 24
  IN  [predicted_power |-> predictedPower(base, hourlyFactor[nextHour + 1], cf, 10),
       confidence |-> confidenceOf(cf),
       peak_hour |-> Whole(12),
       forecast |-> [i \in 1..6 |-> entry(i)],
       timestamp |-> Whole(t)]

\* the object runPrediction builds (lines 157-183)
forecastOf(reading, weather, hour, t) ==
  LET cf   == cloudFactor(Get(weather, "clouds"))
      base == toNumber(orZero(Get(reading, "power")))
      entry(i) == LET futureHour == (hour + i) % 24 IN
                    [hour |-> futureHour, label |-> labelOf(futureHour),
                     predicted |-> predictedPower(base, hourlyFactor[futureHour + 1], cf, 11)]
      nextHour == (hour + 1) % 24
  IN  [predicted_power |-> predictedPower(base, hourlyFactor[nextHour + 1], cf, 10),
       confidence |-> confidenceOf(cf),
       peak_hour |-> Whole(12),
       forecast |-> [i \in 1..6 |-> entry(i)],
       timestamp |-> Whole(t)]

\* set() refuses a value with a NaN in it
predictionValid(c) ==
  /\ c.predicted_power.t # "NaN"
  /\ c.confidence.t # "NaN"
  /\ \A i \in DOMAIN c.forecast : c.forecast[i].predicted.t # "NaN"

\* runPrediction(): replaces the slot, then writes it to the store; threw
\* tells whether set() threw, which runPrediction does not catch
runPrediction(hour, acks, threw) ==
  LET c == forecastOf(latestReading, weatherCache, hour, now) IN
    /\ predictionCache' = replaceSlot(predictionCache, c)
    /\ IF predictionValid(c)
         THEN \E ok \in acks :
                /\ db' = [db EXCEPT !.prediction = IF ok THEN c ELSE @]
                /\ unhandled' = (unhandled \/ ~ok)
                /\ ~threw
         ELSE /\ UNCHANGED <<db, unhandled>>
              /\ threw

\* cron.schedule('*/30 * * * *', runPrediction): node-cron runs the task in a
\* try block of its own, an exception of the task ends only that run
CronPrediction(hour, acks) ==
  /\ process = "running"
  /\ eventLoopFree
  /\ started
  /\ \E threw \in BOOLEAN : runPrediction(hour, acks, threw)
  /\ UNCHANGED <<board, quiet, process, started, serial, now, latestReading, weatherCache,
                 fetching, ghost>>

\* the minutes at which a pattern */step fires
cronMatches(step, minute) == minute % step = 0

\* minutes of the hour at which one of the schedules fires, and one between
Minutes == {0, 10, 20, 25, 30}

\* mutant: the forecast task waits for the answer of the fetch of its tick
CronTick_AwaitsFetch(minute, hour, acks) ==
  /\ process = "running"
  /\ eventLoopFree
  /\ started
  /\ cronMatches(10, minute) \/ cronMatches(30, minute)
  /\ IF cronMatches(30, minute)
       THEN /\ fetching' = fetching
            /\ weatherCache' = snapshotOf(PayloadClouds(100), now)
            /\ predictionCache' = forecastOf(latestReading, weatherCache', hour, now)
            /\ db' = [db EXCEPT !.weather = weatherCache', !.prediction = predictionCache']
       ELSE /\ fetchWeatherStart
            /\ UNCHANGED <<weatherCache, predictionCache, db>>
  /\ UNCHANGED <<board, quiet, process, started, serial, now, latestReading, unhandled, ghost>>

\* one tick of node-cron at the given minute: every task whose pattern
\* matches the minute is run in that tick, '*/10' fetchWeather (which returns
\* at its await) and '*/30' runPrediction (synchronous); the answer of the
\* request is handled in a later turn of the event loop
CronTick(minute, hour, acks) ==
  /\ process = "running"
  /\ eventLoopFree
  /\ started
  /\ cronMatches(10, minute) \/ cronMatches(30, minute)
  /\ IF cronMatches(10, minute) THEN fetchWeatherStart ELSE fetching' = fetching
  /\ IF cronMatches(30, minute)
       THEN \E threw \in BOOLEAN : runPrediction(hour, acks, threw)
       ELSE UNCHANGED <<predictionCache, db, unhandled>>
  /\ UNCHANGED <<board, quiet, process, started, serial, now, latestReading, weatherCache,
                 ghost>>

\* ------------------------------------------------------------------ startup
\* initSerial(): the port is created and opens by itself
initSerial == serial' = "opening"

\* mutant: the callback leaves the first runs to the schedules
Listen_NoEagerRuns(hour, acks) ==
  /\ process = "running"
  /\ ~started
  /\ started' = TRUE
  /\ initSerial
  /\ UNCHANGED <<board, quiet, process, now, slots, db, unhandled, fetching, ghost>>

\* the app.listen callback: fetchWeather(); runPrediction(); initSerial();
\* an exception of runPrediction is uncaught there
Listen(hour, acks) ==
  /\ process = "running"
  /\ ~started
  /\ started' = TRUE
  /\ fetchWeatherStart
  /\ \E threw \in BOOLEAN :
       /\ runPrediction(hour, acks, threw)
       /\ process' = afterHandler(threw)
       /\ IF threw THEN serial' = serial ELSE initSerial
  /\ UNCHANGED <<board, quiet, now, latestReading, weatherCache, ghost>>

\* ------------------------------------------------------------ query surface
\* GET /api/live
getLive == [success |-> TRUE, data |-> latestReading]

\* GET /api/weather
getWeather == [success |-> TRUE, data |-> weatherCache]

\* GET /api/prediction
getPrediction == [success |-> TRUE, data |-> predictionCache]

\* mutant: the dashboard takes the live part from the store
getDashboard_FromStore ==
  [success |-> TRUE,
   data |-> [live |-> db.live, weather |-> weatherCache, prediction |-> predictionCache]]

\* GET /api/dashboard: the three slots, read in one run of the handler
getDashboard ==
  [success |-> TRUE,
   data |-> [live |-> latestReading, weather |-> weatherCache,
             prediction |-> predictionCache]]

\* GET /api/health; process.uptime() counts from process start
getHealth == [status |-> "ok", uptime |-> now]

\* the entries in ascending timestamp order, equal timestamps in the order
\* they had (orderByChild('timestamp') with push keys, and the sort of line 218)
RECURSIVE insertByTimestamp(_, _)
insertByTimestamp(sorted, e) ==
  IF sorted = <<>> THEN <<e>>
  ELSE LET last == sorted[Len(sorted)] IN
    IF Get(last, "timestamp").n <= Get(e, "timestamp").n
      THEN Append(sorted, e)
      ELSE Append(insertByTimestamp(SubSeq(sorted, 1, Len(sorted) - 1), e), last)

RECURSIVE sortByTimestamp(_)
sortByTimestamp(entries) ==
  IF entries = <<>> THEN <<>>
  ELSE insertByTimestamp(sortByTimestamp(SubSeq(entries, 1, Len(entries) - 1)),
                         entries[Len(entries)])

\* limitToLast(limit)
limitToLast(entries, limit) ==
  IF Len(entries) <= limit THEN entries
  ELSE SubSeq(entries, Len(entries) - limit + 1, Len(entries))

\* the default of line 211
DefaultLimit == 50

\* parseInt(req.query.limit) || 50
limitOf(q) == IF q = 0 THEN DefaultLimit ELSE q

\* GET /api/history?limit=q, q the integer parseInt makes of the parameter
\* (0 when it is absent or no number); limitToLast throws on a limit that is
\* not positive and the handler answers 500
getHistory(q) ==
  LET limit == limitOf(q) IN
    IF limit < 0 THEN [success |-> FALSE, data |-> <<>>]
    ELSE [success |-> TRUE,
          data |-> sortByTimestamp(limitToLast(sortByTimestamp(db.history), limit))]

\* the cap the specification asks for on a caller's limit; the handler has none
HistoryCap == 1000

\* the routes of lines 194-241
Endpoints == {"live", "weather", "prediction", "history", "dashboard", "health"}
\* the routes that answer with slots
SlotRoutes == {"live", "weather", "prediction", "dashboard"}

\* req.query.limit as a caller sends it: absent, or the text of an integer
NoLimit == Undefined
Limits == {NoLimit, Whole(-1), Whole(0), Whole(1), Whole(HistoryCap + 1)}

\* parseInt(req.query.limit) as getHistory takes it: NaN (the parameter is
\* absent) is falsy at || like 0, and is the 0 here
parseLimit(p) == IF p.t = "number" THEN p.n \div 1000 ELSE 0

\* what a route answers; the read of solarData/history may fail (ok), and the
\* handler then answers 500
respond(endpoint, q, ok) ==
  CASE endpoint = "live"       -> getLive
    [] endpoint = "weather"    -> getWeather
    [] endpoint = "prediction" -> getPrediction
    [] endpoint = "dashboard"  -> getDashboard
    [] endpoint = "health"     -> getHealth
    [] endpoint = "history"    ->
         IF ok THEN getHistory(q) ELSE [success |-> FALSE, data |-> <<>>]

\* mutant: the live route marks the reading it has served
Request_Marking(endpoint, p, ok) ==
  /\ process = "running"
  /\ eventLoopFree
  /\ started
  /\ reply' = [endpoint |-> endpoint, limit |-> p,
               asked |-> IF endpoint = "history" THEN limitOf(parseLimit(p)) ELSE 0,
               body |-> respond(endpoint, parseLimit(p), ok)]
  /\ latestReading' = IF endpoint = "live"
                        THEN SetField(latestReading, "served", Bool(TRUE))
                        ELSE latestReading
  /\ UNCHANGED <<board, silent, process, started, serial, now, weatherCache, predictionCache,
                 db, unhandled, fetching, ghost>>

\* one request to the query surface, handled to its response; p is the limit
\* parameter, asked the limit the history route passes to limitToLast
Request(endpoint, p, ok) ==
  /\ process = "running"
  /\ eventLoopFree
  /\ started
  /\ reply' = [endpoint |-> endpoint, limit |-> p,
               asked |-> IF endpoint = "history" THEN limitOf(parseLimit(p)) ELSE 0,
               body |-> respond(endpoint, parseLimit(p), ok)]
  /\ UNCHANGED <<board, silent, process, started, serial, now, slots, db, unhandled,
                 fetching, ghost>>

\* ----------------------------------------------------------------- firmware
\* solar_tracker.ino, lines 50-55
TOLERANCE == 30
SERVO_STEP == 1
SERVO_H_MIN == 0
SERVO_H_MAX == 180
SERVO_V_MIN == 60
SERVO_V_MAX == 120
\* DUST_THRESHOLD (line 60) and dustThreshold of the single-servo sketch
DUST_THRESHOLD == 200
\* threshold of the single-servo sketch (line 31)
threshold == 50

Sketches == {"solar_tracker", "single_servo"}

abs(x) == IF x < 0 THEN -x ELSE x

\* mutant: the new angle is taken as it is
constrain_Unclamped(amt, low, high) == amt

\* constrain(amt, low, high) of Arduino.h
constrain(amt, low, high) == IF amt < low THEN low ELSE IF amt > high THEN high ELSE amt

\* map(x, in_min, in_max, out_min, out_max) of WMath.cpp, in long arithmetic;
\* every operand is non-negative here
map(x, in_min, in_max, out_min, out_max) ==
  ((x - in_min) * (out_max - out_min)) \div (in_max - in_min) + out_min

\* mutant: abs(error) >= TOLERANCE
outsideDeadBand_Inclusive(error) == abs(error) >= TOLERANCE

\* abs(error) > TOLERANCE
outsideDeadBand(error) == abs(error) > TOLERANCE

\* the values of the four LDRs <<tl, tr, bl, br>> (analogRead gives 0..1023):
\* even light, each axis just outside and just inside the dead-band in both
\* directions, and light in one corner only
Samples ==
  {<<512, 512, 512, 512>>,
   <<61, 61, 30, 30>>, <<60, 60, 30, 30>>, <<30, 30, 61, 61>>, <<30, 30, 60, 60>>,
   <<61, 30, 61, 30>>, <<60, 30, 60, 30>>, <<30, 61, 30, 61>>, <<30, 60, 30, 60>>,
   <<1023, 0, 0, 0>>, <<0, 0, 0, 1023>>}
\* the values read when a report is made: dark, even light, full light
ReportSamples == {<<0, 0, 0, 0>>, <<512, 512, 512, 512>>, <<1023, 1023, 1023, 1023>>}
\* the values <<left, right>> of the two LDRs of the single-servo sketch
PairSamples ==
  {<<512, 512>>, <<51, 0>>, <<50, 0>>, <<0, 51>>, <<0, 50>>, <<1023, 0>>, <<0, 1023>>,
   <<0, 0>>, <<1023, 1023>>}
\* <<noise, dustVal>>: the least and the greatest value of random(-20, 20),
\* with a dust LDR value on either side of the threshold
Ambient == {<<-20, 199>>, <<19, 200>>}

vertErrorOf(s) == (s[1] + s[2]) \div 2 - (s[3] + s[4]) \div 2
horizErrorOf(s) == (s[1] + s[3]) \div 2 - (s[2] + s[4]) \div 2

\* the simulated panel (lines 152-171): voltage in hundredths of a volt,
\* current in mA, power in thousandths of a watt; negatives are clamped
telemetryOf(lightPct, noise, dustVal, h, v) ==
  LET busVoltage == IF lightPct > 10 THEN 400 + 2 * lightPct ELSE 0
      raw_mA     == IF lightPct > 10 THEN 15 * lightPct + noise ELSE 0
      power_W    == (busVoltage * raw_mA) \div 100
  IN  [voltage |-> busVoltage,
       current |-> IF raw_mA < 0 THEN 0 ELSE raw_mA,
       power |-> IF power_W < 0 THEN 0 ELSE power_W,
       angleH |-> h, angleV |-> v, light |-> lightPct,
       dustAlert |-> dustVal < DUST_THRESHOLD, dustRaw |-> dustVal]

\* setup(): the servos are written the centre position and the banner is
\* printed (a status message, no telemetry)
setup(s) ==
  /\ sketch = s
  /\ angleH = 90
  /\ angleV = 90
  /\ pos = 90
  /\ sensed = <<0, 0, 0, 0>>
  /\ emitted = [by |-> "setup", servoH |-> TRUE, servoV |-> (s = "solar_tracker"),
                lines |-> <<>>]

\* trackSun(), called by loop() every TRACK_INTERVAL
trackSun(s) ==
  /\ sketch = "solar_tracker"
  /\ LET vertError  == vertErrorOf(s)
         horizError == horizErrorOf(s)
     IN /\ angleV' = IF outsideDeadBand(vertError)
                       THEN IF vertError > 0
                              THEN constrain(angleV + SERVO_STEP, SERVO_V_MIN, SERVO_V_MAX)
                              ELSE constrain(angleV - SERVO_STEP, SERVO_V_MIN, SERVO_V_MAX)
                       ELSE angleV
        /\ angleH' = IF outsideDeadBand(horizError)
                       THEN IF horizError > 0
                              THEN constrain(angleH + SERVO_STEP, SERVO_H_MIN, SERVO_H_MAX)
                              ELSE constrain(angleH - SERVO_STEP, SERVO_H_MIN, SERVO_H_MAX)
                       ELSE angleH
        /\ emitted' = [by |-> "trackSun", servoH |-> outsideDeadBand(horizError),
                       servoV |-> outsideDeadBand(vertError), lines |-> <<>>]
  /\ sensed' = s
  /\ UNCHANGED <<server, sketch, pos>>

\* reportData(), called by loop() every REPORT_INTERVAL
reportData(s, noise, dustVal) ==
  /\ sketch = "solar_tracker"
  /\ LET ldrAvg   == (s[1] + s[2] + s[3] + s[4]) \div 4
         lightPct == map(ldrAvg, 0, 1023, 0, 100)
     IN emitted' = [by |-> "reportData", servoH |-> FALSE, servoV |-> FALSE,
                    lines |-> <<telemetryOf(lightPct, noise, dustVal, angleH, angleV)>>]
  /\ sensed' = s
  /\ UNCHANGED <<server, sketch, angleH, angleV, pos>>

\* loop() of the single-servo sketch; report tells whether two seconds have
\* passed since the last report.  The line carries pos as angleH and the
\* constant 90 as angleV.
loop(s, report, noise, dustVal) ==
  /\ sketch = "single_servo"
  /\ LET diff == s[1] - s[2]
         moved == IF diff > threshold THEN pos - 1
                  ELSE IF diff < -threshold THEN pos + 1 ELSE pos
         lightPct == map((s[1] + s[2]) \div 2, 0, 1023, 0, 100)
     IN /\ pos' = constrain(moved, 0, 180)
        /\ emitted' = [by |-> "loop", servoH |-> TRUE, servoV |-> FALSE,
                       lines |-> IF report
                                   THEN <<telemetryOf(lightPct, noise, dustVal, pos', 90)>>
                                   ELSE <<>>]
  /\ sensed' = <<s[1], s[2], 0, 0>>
  /\ UNCHANGED <<server, sketch, angleH, angleV>>

\* -------------------------------------------------------------- the program
\* the server after the module has been loaded
ServerStart ==
  /\ process = "running"
  /\ started = FALSE
  /\ serial = "none"
  /\ now = 0
  /\ latestReading =
       Obj([voltage |-> Whole(0), current |-> Whole(0), power |-> Whole(0),
            angleH |-> Whole(90), angleV |-> Whole(90), light |-> Whole(0),
            dustAlert |-> Bool(FALSE), dustRaw |-> Whole(0), timestamp |-> Whole(0)])
  /\ weatherCache = Obj(NoFields)
  /\ predictionCache =
       [predicted_power |-> Whole(0), confidence |-> Whole(0), peak_hour |-> Undefined,
        forecast |-> <<>>, timestamp |-> Undefined]
  /\ db = [live |-> Val(Null), weather |-> Val(Null), prediction |-> Val(Null),
           history |-> <<>>]
  /\ unhandled = FALSE
  /\ fetching = 0
  /\ lineSeq = 0
  /\ lastLine = LineGarbage
  /\ accepted = <<>>
  /\ lastResp = RespNetworkError
  /\ silent = 0
  /\ reply = [endpoint |-> "none", limit |-> NoLimit, asked |-> 0,
              body |-> [success |-> FALSE]]

\* the server with the board running solar_tracker.ino
Init == ServerStart /\ setup("solar_tracker")

\* the server with a board running either sketch
InitBoard == ServerStart /\ \E s \in Sketches : setup(s)

\* the answers of the store to a write
Acks == BOOLEAN

\* the hour of the day at startup, and the answers to the startup request the
\* specifications without the weather schedule let arrive
StartHours == {11}
StartResponses == {RespNetworkError, Response("ok", PayloadClouds(40))}
\* the answers with a clear and a partly clouded sky
ForecastResponses == {Response("ok", PayloadClouds(c)) : c \in {0, 40}}

\* The whole program: every handler and job, every input.
Program ==
  \/ \E hour \in Hours : Listen(hour, Acks)
  \/ SerialOpen
  \/ SerialOpenError
  \/ SerialDisconnect
  \/ \E line \in Lines \cup ForecastLines : OnData(line, Acks, Acks)
  \/ CronWeather
  \/ \E resp \in Responses \cup ForecastResponses : WeatherResponse(resp, Acks)
  \/ ApiSilent
  \/ \E hour \in Hours : CronPrediction(hour, Acks)
  \/ \E endpoint \in Endpoints, p \in Limits, ok \in Acks : Request(endpoint, p, ok)
  \/ Tick
  \/ UnhandledRejection

\* Ingestion: startup, the serial port and its lines.  The store may reject
\* the appends to solarData/history; the weather API does not answer.
Next ==
  \/ \E hour \in StartHours : Listen(hour, {TRUE})
  \/ SerialOpen
  \/ SerialOpenError
  \/ SerialDisconnect
  \/ \E line \in IngestLines : OnData(line, {TRUE}, Acks)
  \/ Tick
  \/ UnhandledRejection

Spec == Init /\ [][Next]_vars

\* Ingestion with a store that may reject any write.
NextStoreDown ==
  \/ \E hour \in StartHours : Listen(hour, Acks)
  \/ SerialOpen
  \/ SerialOpenError
  \/ SerialDisconnect
  \/ \E line \in Lines : OnData(line, Acks, Acks)
  \/ Tick
  \/ UnhandledRejection

SpecStoreDown == Init /\ [][NextStoreDown]_vars

\* Ingestion of the lines the device protocol foresees, with a store that
\* acknowledges every write and a weather API that answers the startup
\* request.
NextNominal ==
  \/ \E hour \in StartHours : Listen(hour, {TRUE})
  \/ SerialOpen
  \/ SerialOpenError
  \/ SerialDisconnect
  \/ \E line \in NominalLines : OnData(line, {TRUE}, {TRUE})
  \/ \E resp \in StartResponses : WeatherResponse(resp, {TRUE})
  \/ Tick

SpecNominal == Init /\ [][NextNominal]_vars

\* The two scheduled jobs without the serial port.
NextJobs ==
  \/ \E hour \in Hours : Listen(hour, Acks)
  \/ CronWeather
  \/ \E resp \in Responses : WeatherResponse(resp, Acks)
  \/ \E hour \in Hours : CronPrediction(hour, Acks)
  \/ Tick
  \/ UnhandledRejection

SpecJobs == Init /\ [][NextJobs]_vars

\* The weather refresher with an API that may stay silent; the store
\* acknowledges every write.
NextOutage ==
  \/ \E hour \in StartHours : Listen(hour, {TRUE})
  \/ CronWeather
  \/ \E resp \in Responses : WeatherResponse(resp, {TRUE})
  \/ ApiSilent
  \/ Tick

SpecOutage == Init /\ [][NextOutage]_vars

\* the lines the specification with the query surface lets arrive
QueryLines == {LineValid5, LineValid6}

\* The three writers of the slots and the routes that answer with slots; the
\* store acknowledges every write.
NextQuery ==
  \/ \E hour \in StartHours : Listen(hour, {TRUE})
  \/ SerialOpen
  \/ \E line \in QueryLines : OnData(line, {TRUE}, {TRUE})
  \/ \E resp \in StartResponses : WeatherResponse(resp, {TRUE})
  \/ \E hour \in StartHours : CronPrediction(hour, {TRUE})
  \/ \E endpoint \in SlotRoutes : Request(endpoint, NoLimit, TRUE)
  \/ Tick

SpecQuery == Init /\ [][NextQuery]_vars

\* Ingestion and every route of the query surface; the store acknowledges
\* every write, its reads may fail.
NextHistory ==
  \/ \E hour \in StartHours : Listen(hour, {TRUE})
  \/ SerialOpen
  \/ \E line \in NominalLines : OnData(line, {TRUE}, {TRUE})
  \/ \E endpoint \in Endpoints \ {"history"} : Request(endpoint, NoLimit, TRUE)
  \/ \E p \in Limits, ok \in Acks : Request("history", p, ok)
  \/ Tick

SpecHistory == Init /\ [][NextHistory]_vars

\* The forecast job with its inputs: readings arrive, the startup request is
\* answered, the job runs at either hour; the store acknowledges every write.
NextForecast ==
  \/ \E hour \in Hours : Listen(hour, {TRUE})
  \/ SerialOpen
  \/ \E line \in ForecastLines : OnData(line, {TRUE}, {TRUE})
  \/ \E resp \in ForecastResponses : WeatherResponse(resp, {TRUE})
  \/ \E hour \in Hours : CronPrediction(hour, {TRUE})
  \/ Tick

SpecForecast == Init /\ [][NextForecast]_vars

\* The handlers next to a weather request that is never answered; the store
\* acknowledges every write.
NextBusy ==
  \/ \E hour \in StartHours : Listen(hour, {TRUE})
  \/ SerialOpen
  \/ CronWeather
  \/ ApiSilent
  \/ OnData(LineValid5, {TRUE}, {TRUE})
  \/ \E hour \in StartHours : CronPrediction(hour, {TRUE})
  \/ \E endpoint \in {"live", "history"} : Request(endpoint, NoLimit, TRUE)
  \/ Tick

SpecBusy == Init /\ [][NextBusy]_vars

\* Every writer next to the history route: readings arrive and are pushed
\* (the store may reject a push), the weather job is answered, the forecast
\* job runs, the history route is queried.
NextAppend ==
  \/ \E hour \in StartHours : Listen(hour, {TRUE})
  \/ SerialOpen
  \/ \E line \in QueryLines : OnData(line, {TRUE}, Acks)
  \/ \E resp \in StartResponses : WeatherResponse(resp, {TRUE})
  \/ \E hour \in StartHours : CronPrediction(hour, {TRUE})
  \/ Request("history", NoLimit, TRUE)
  \/ Tick

SpecAppend == Init /\ [][NextAppend]_vars

\* a failed fetch, a snapshot the store takes, one it refuses
SlotResponses ==
  {RespNetworkError, Response("ok", PayloadClouds(40)), Response("ok", PayloadNoAll)}

\* The three writers of the slots and of the store mirror; the store
\* acknowledges every write it is given.
NextSlots ==
  \/ \E hour \in StartHours : Listen(hour, {TRUE})
  \/ SerialOpen
  \/ \E line \in SlotLines : OnData(line, {TRUE}, {TRUE})
  \/ \E resp \in SlotResponses : WeatherResponse(resp, {TRUE})
  \/ \E hour \in StartHours : CronPrediction(hour, {TRUE})
  \/ Tick

SpecSlots == Init /\ [][NextSlots]_vars

\* Ingestion of telemetry that carries a status or error member.
NextFlags ==
  \/ \E hour \in StartHours : Listen(hour, {TRUE})
  \/ SerialOpen
  \/ \E line \in FlagLines : OnData(line, {TRUE}, {TRUE})
  \/ Tick

SpecFlags == Init /\ [][NextFlags]_vars

\* The two schedules driven by the minute of the clock, with readings and
\* weather answers in between; the store acknowledges every write.
NextTicks ==
  \/ \E hour \in StartHours : Listen(hour, {TRUE})
  \/ SerialOpen
  \/ OnData(LineValid5, {TRUE}, {TRUE})
  \/ \E minute \in Minutes, hour \in StartHours : CronTick(minute, hour, {TRUE})
  \/ \E resp \in ForecastResponses : WeatherResponse(resp, {TRUE})
  \/ Tick

SpecTicks == Init /\ [][NextTicks]_vars

\* The board by itself: the tracking and reporting calls of loop() in any
\* order, with the sensor values of the samples.
NextBoard ==
  \/ \E s \in Samples : trackSun(s)
  \/ \E s \in ReportSamples, a \in Ambient : reportData(s, a[1], a[2])
  \/ \E s \in PairSamples, report \in BOOLEAN, a \in Ambient :
       loop(s, report, a[1], a[2])

SpecBoard == InitBoard /\ [][NextBoard]_vars

\* ------------------------------------------------------------------ claims
TelemetryNumbers == {"voltage", "current", "power", "angleH", "angleV", "light", "dustRaw"}
TelemetryFields  == TelemetryNumbers \cup {"dustAlert"}

\* the text of the line, blanks stripped, is a JSON object
ObjectLine(line) == line.brace /\ line.parsed.ok /\ line.parsed.val.t = "object"

\* a telemetry line: every required field present with its type, no status
\* or error member
WellFormed(line) ==
  /\ ObjectLine(line)
  /\ \A f \in TelemetryNumbers : Get(line.parsed.val, f).t = "number"
  /\ Get(line.parsed.val, "dustAlert").t = "boolean"
  /\ {"status", "error"} \cap DOMAIN line.parsed.val.o = {}

\* an object with a status or error member and no telemetry field
DeviceMessageShape(line) ==
  /\ ObjectLine(line)
  /\ {"status", "error"} \cap DOMAIN line.parsed.val.o # {}
  /\ TelemetryFields \cap DOMAIN line.parsed.val.o = {}

\* a device message that carries a text
DeviceMessageText(line) ==
  /\ DeviceMessageShape(line)
  /\ \E k \in {"status", "error"} :
       Get(line.parsed.val, k).t = "string" /\ Get(line.parsed.val, k).s # ""

\* the step of the 'data' handler on the line lastLine'
LineStep == lineSeq' # lineSeq

\* the reading that line e.line, processed at time e.at, is to become
ReadingOf(e) == SetField(e.line.parsed.val, "timestamp", Whole(e.at))

LastAccepted == accepted[Len(accepted)]

\* C1: after any sequence of lines, /api/live returns the reading built from
\* the last line of the sequence that was accepted as a reading.
C1_LiveIsLastAccepted ==
  accepted # <<>> => getLive = [success |-> TRUE, data |-> ReadingOf(LastAccepted)]

\* two readings accepted at different times, then a status message
C1_Witness ==
  /\ Len(accepted) = 2
  /\ accepted[1].line = LineValid5 /\ accepted[1].at = 0
  /\ accepted[2].line = LineValid6 /\ accepted[2].at = 1
  /\ lastLine = LineStatus
  /\ Get(getLive.data, "power") = Num(6000)

C3_NonJsonLineChangesNothing ==
  [][(LineStep /\ ~lastLine'.brace) =>
       UNCHANGED <<latestReading, weatherCache, predictionCache, db, process, unhandled>>]_vars

\* the bare number 42 was the last line, after a reading and a weather snapshot
C3_Witness ==
  /\ lastLine = LineNumber
  /\ accepted # <<>>
  /\ db.history # <<>>
  /\ weatherCache # Obj(NoFields)

\* the lines C4 calls bad input: not JSON, malformed, a device message
BadLine(line) == ~line.brace \/ ~line.parsed.ok \/ DeviceMessageText(line)

MissingField(line) ==
  /\ ObjectLine(line)
  /\ \/ \E f \in TelemetryNumbers : Get(line.parsed.val, f).t # "number"
     \/ Get(line.parsed.val, "dustAlert").t # "boolean"

\* C5: a JSON-object line with a required telemetry field missing or of the
\* wrong type neither replaces latestReading nor is appended to History.
C5_MissingFieldRejected ==
  [][(LineStep /\ MissingField(lastLine')) =>
       (latestReading' = latestReading /\ db'.history = db.history)]_vars

\* C6: a JSON-object line with a status or error member and no telemetry
\* field never replaces latestReading and is never appended to History,
\* whatever the value of that member.
C6_DeviceMessageNeverReading ==
  [][(LineStep /\ DeviceMessageShape(lastLine')) =>
       (latestReading' = latestReading /\ db'.history = db.history)]_vars

\* the stored entry e is the line of a with its telemetry fields and the
\* time of processing as timestamp
StoredFrom(e, a) ==
  /\ \A f \in TelemetryFields : Get(e, f) = Get(a.line.parsed.val, f)
  /\ Get(e, "timestamp") = Whole(a.at)

\* C7: for a well-formed telemetry line the stored reading (latestReading,
\* the live record, every History entry) has the telemetry values of the
\* input and the time of processing as timestamp, never a timestamp supplied
\* in the line.
C7_FieldsKeptTimestampStamped ==
  /\ (accepted # <<>> /\ WellFormed(LastAccepted.line)) => StoredFrom(latestReading, LastAccepted)
  /\ \A i \in DOMAIN db.history :
       \E j \in DOMAIN accepted : StoredFrom(db.history[i], accepted[j])
  /\ db.live # Val(Null) =>
       \E j \in DOMAIN accepted : StoredFrom(db.live, accepted[j])

\* the line that carries "timestamp":99 was processed at time 1 and stored
C7_Witness ==
  /\ accepted # <<>>
  /\ LastAccepted.line = LineStamped /\ LastAccepted.at = 1
  /\ db.history # <<>>
  /\ db.history[Len(db.history)] = latestReading

\* C8: when the append of a reading to History has failed, ingestion goes on:
\* the process runs and takes the following lines.
C8_AppendFailureTolerated ==
  Len(db.history) < Len(accepted) => process = "running"

\* C9: no error ends the process, and no rejected write is left unhandled.
C9_NeverTerminates == process = "running" /\ ~unhandled

\* C10: a weather fetch that fails with a network error or a non-success
\* status leaves the weather slot (and what /api/weather returns) as it was,
\* and fetchWeather completes without a rejection.
C10_FailedFetchKeepsSnapshot ==
  [][(fetching' = fetching - 1 /\ lastResp' \in FailedResponses) =>
       /\ weatherCache' = weatherCache
       /\ getWeather' = getWeather
       /\ unhandled' = unhandled
       /\ process' = process]_vars

\* a fetch failed after an earlier one had stored a snapshot
C10_Witness ==
  /\ lastResp \in FailedResponses
  /\ weatherCache # Obj(NoFields)
  /\ Get(weatherCache, "clouds") = Whole(40)
  /\ process = "running" /\ ~unhandled

\* the members fetchWeather reads of a payload (lines 126-130)
PayloadLeaves(body) ==
  {Get(body.main, "temp"), Get(body.main, "humidity"), Get(body.clouds, "all"),
   Get(body.weather0, "description"), Get(body.wind, "speed")}

\* one of the five members is missing
Malformed(body) == \E p \in PayloadLeaves(body) : p.t = "undefined"

\* C11: a successful response whose payload lacks one of main.temp,
\* main.humidity, clouds.all, weather[0].description, wind.speed leaves the
\* weather slot as it was; the slot never holds a snapshot with a missing field.
C11_MalformedPayloadKeepsSnapshot ==
  [][(fetching' = fetching - 1 /\ lastResp'.kind = "ok" /\ Malformed(lastResp'.body)) =>
       weatherCache' = weatherCache]_vars

\* C12: at most one weather fetch is in flight; a trigger that fires while
\* one is outstanding issues no second request.
C12_SingleFlight == fetching <= 1

\* some step of the program completes an outstanding weather fetch
FetchFinishes == Program /\ fetching' < fetching

\* C13: a weather fetch that was started can always finish, also when the
\* API never answers: while the process runs and a fetch is outstanding, a
\* step that completes it (an answer, or a timeout) is possible.
C13_FetchCanFinish ==
  (process = "running" /\ fetching > 0) => ENABLED FetchFinishes

\* some step of the program takes the port out of the disconnected state
Reconnects == Program /\ serial' \notin {"failed", "closed"}

\* C14: after a failed open or a disconnect the ingestion loop is never
\* stuck: while the process runs, a step that leaves the disconnected state
\* (a reconnection attempt) is possible.
C14_CanReconnect ==
  (process = "running" /\ serial \in {"failed", "closed"}) => ENABLED Reconnects

\* a request was handled (one that repeats the last request and gets the
\* same response leaves the state as it is)
RequestStep ==
  \/ reply'.endpoint # reply.endpoint
  \/ reply'.limit # reply.limit
  \/ reply'.body # reply.body

\* a request was handled and answered by the route
Answered(endpoint) == RequestStep /\ reply'.endpoint = endpoint

\* C15: no torn values.  Every change of a slot stores the complete value of
\* one write (the stamped reading of the line, the snapshot of the answer,
\* the forecast computed in that step), and a route answers with the whole
\* value its slot holds.
C15_NoTornValue ==
  [][/\ latestReading' # latestReading =>
          LineStep /\ latestReading' = ReadingOf(LastAccepted')
     /\ weatherCache' # weatherCache =>
          weatherCache' = snapshotOf(lastResp'.body, now)
     /\ predictionCache' # predictionCache =>
          \E hour \in Hours :
             predictionCache' = forecastOf(latestReading, weatherCache, hour, now)
     /\ Answered("live") => reply'.body.data = latestReading
     /\ Answered("weather") => reply'.body.data = weatherCache
     /\ Answered("prediction") => reply'.body.data = predictionCache]_vars

\* /api/live answered with the second reading after all three writers had
\* replaced their slots at time 1
C15_Witness ==
  /\ reply.endpoint = "live"
  /\ Len(accepted) = 2
  /\ reply.body.data = ReadingOf(accepted[2])
  /\ accepted[1].at = 0 /\ accepted[2].at = 1
  /\ Get(weatherCache, "timestamp") = Whole(1)
  /\ predictionCache.timestamp = Whole(1)

\* C16: the three parts of one /api/dashboard response are the values the
\* three slots hold in the one state the request is handled in, and the
\* response has no history part.
C16_DashboardOneInstant ==
  [][Answered("dashboard") =>
       /\ reply'.body.data = [live |-> latestReading, weather |-> weatherCache,
                              prediction |-> predictionCache]
       /\ DOMAIN reply'.body.data = {"live", "weather", "prediction"}]_vars

\* a dashboard response taken after a reading and a weather snapshot; the
\* reading and the forecast have been replaced since
C16_Witness ==
  /\ reply.endpoint = "dashboard"
  /\ Get(reply.body.data.live, "power") = Num(5000)
  /\ Get(reply.body.data.weather, "clouds") = Whole(40)
  /\ Get(latestReading, "power") = Num(6000)
  /\ reply.body.data.prediction # predictionCache

\* C17: a request to the query surface leaves the three slots and the store
\* (History included) as they were.
C17_QueriesReadOnly ==
  [][RequestStep => UNCHANGED <<latestReading, weatherCache, predictionCache, db>>]_vars

\* /api/history answered with the two readings in History
C17_Witness ==
  /\ reply.endpoint = "history"
  /\ reply.body.success
  /\ Len(reply.body.data) = 2
  /\ db.history = reply.body.data
  /\ latestReading = db.history[2]

\* an explicit "no data yet": an error response, or null/empty data
Absent(body) ==
  \/ ~body.success
  \/ body.data.t \in {"null", "undefined"}
  \/ body.data = Obj(NoFields)

\* C18: before the first reading /api/live answers "no data yet", before the
\* first weather snapshot /api/weather answers absent.
C18_AbsentUntilFirstData ==
  /\ (reply.endpoint = "live" /\ accepted = <<>>) => Absent(reply.body)
  /\ (reply.endpoint = "weather" /\ db.weather = Val(Null)) => Absent(reply.body)

\* timestamps of the entries of a sequence of readings
Stamp(e) == Get(e, "timestamp").n \div 1000
NonDecreasing(d) == \A i \in 1..(Len(d) - 1) : Stamp(d[i]) <= Stamp(d[i + 1])
NotOlderThan(d, t) == Cardinality({i \in DOMAIN d : Stamp(d[i]) >= t})
Least(a, b) == IF a <= b THEN a ELSE b
\* d holds entries of h, and of them the ones with the greatest timestamps
GreatestOf(d, h) ==
  /\ \A i \in DOMAIN d : \E j \in DOMAIN h : d[i] = h[j]
  /\ \A t \in 0..MaxClock : NotOlderThan(d, t) = Least(Len(d), NotOlderThan(h, t))

\* C19: for a limit the caller supplies, /api/history returns at most that
\* many entries, the ones with the greatest timestamps, oldest first.
C19_HistoryAtMostLimit ==
  [][(Answered("history") /\ reply'.limit.t = "number" /\ reply'.body.success) =>
       LET d == reply'.body.data IN
         /\ Len(d) <= parseLimit(reply'.limit)
         /\ NonDecreasing(d)
         /\ GreatestOf(d, db.history)]_vars

\* C20: the limit passed to the store is 50 when the caller gives none and
\* never above the cap.
C20_LimitClamped ==
  reply.endpoint = "history" =>
    /\ reply.limit = NoLimit => reply.asked = DefaultLimit
    /\ reply.asked <= HistoryCap

\* the forecast job ran and replaced the forecast
PredictionStep == predictionCache' # predictionCache

\* the hour of the day the forecast in the slot was computed at
ComputedAt(hour) ==
  predictionCache.forecast # <<>> /\ predictionCache.forecast[1].hour = (hour + 1) % 24

\* C21: from a latest reading of power 10 and a weather snapshot with cloud
\* cover 0, a recomputation at hour 11 gives the next-hour predicted_power
\* 10.0 and confidence 90.
C21_NoonExample ==
  [][(/\ PredictionStep
      /\ Get(latestReading, "power") = Whole(10)
      /\ Get(weatherCache, "clouds") = Whole(0)
      /\ ComputedAt(11)') =>
       /\ predictionCache'.predicted_power = Whole(10)
       /\ predictionCache'.confidence = Whole(90)]_vars

\* that forecast is in the slot; its first entry, boosted, is 11.0 at 12:00
C21_Witness ==
  /\ Get(latestReading, "power") = Whole(10)
  /\ Get(weatherCache, "clouds") = Whole(0)
  /\ ComputedAt(11)
  /\ predictionCache.timestamp = Whole(1)
  /\ predictionCache.predicted_power = Whole(10)
  /\ predictionCache.confidence = Whole(90)
  /\ predictionCache.forecast[1].predicted = Whole(11)

\* C22: a computed forecast has six entries, the i-th for the hour
\* (currentHour + i) mod 24 with the label "<hour>:00", also across midnight,
\* and predicted_power is the unboosted prediction for the hour of entry 1.
C22_SixHoursAhead ==
  [][PredictionStep =>
       LET f == predictionCache'.forecast IN
         /\ DOMAIN f = 1..6
         /\ \E hour \in 0..23 :
              \A i \in 1..6 : /\ f[i].hour = (hour + i) % 24
                               /\ f[i].label = <<(hour + i) % 24, ":00">>
         /\ \A i \in 1..5 : f[i + 1].hour = (f[i].hour + 1) % 24
         /\ predictionCache'.predicted_power =
              predictedPower(toNumber(orZero(Get(latestReading, "power"))),
                             hourlyFactor[f[1].hour + 1],
                             cloudFactor(Get(weatherCache, "clouds")), 10)]_vars

\* a forecast computed at hour 21 from the power 10 reading: 22:00, 23:00,
\* 0:00, ... 3:00
C22_Witness ==
  /\ Get(latestReading, "power") = Whole(10)
  /\ ComputedAt(21)
  /\ predictionCache.forecast[2].hour = 23
  /\ predictionCache.forecast[3].hour = 0
  /\ predictionCache.forecast[3].label = <<0, ":00">>
  /\ predictionCache.forecast[6].hour = 3

\* a number that is not negative (NaN is neither)
NonNegative(p) == p.t = "number" /\ p.n >= 0

\* C23: whatever reading the handler accepted and for clouds in 0..100, every
\* predicted power of a computed forecast and predicted_power are >= 0, and
\* confidence is round((1 - clouds/100 * 0.7) * 90), within 0..100.
C23_ForecastInRange ==
  [][(PredictionStep /\ Get(weatherCache, "clouds").t \in {"number", "undefined"}) =>
       /\ \A i \in DOMAIN predictionCache'.forecast :
            NonNegative(predictionCache'.forecast[i].predicted)
       /\ NonNegative(predictionCache'.predicted_power)
       /\ predictionCache'.confidence = confidenceOf(cloudFactor(Get(weatherCache, "clouds")))
       /\ NonNegative(predictionCache'.confidence)
       /\ predictionCache'.confidence.n <= 100000]_vars

\* C24: a forecast computed before any reading was ingested has base power
\* 0, all its predicted values are 0; one computed before any weather
\* snapshot exists takes clouds as 0: cloudFactor 1 and confidence 90.
C24_ForecastDefaults ==
  [][PredictionStep =>
       /\ accepted = <<>> =>
            /\ predictionCache'.predicted_power = Whole(0)
            /\ \A i \in 1..6 : predictionCache'.forecast[i].predicted = Whole(0)
       /\ weatherCache = Obj(NoFields) =>
            /\ predictionCache'.confidence = Whole(90)
            /\ predictionCache'.predicted_power =
                 predictedPower(toNumber(orZero(Get(latestReading, "power"))),
                                hourlyFactor[predictionCache'.forecast[1].hour + 1],
                                Whole(1), 10)]_vars

\* the forecast of the startup run at hour 11: no reading, no snapshot
C24_Witness ==
  /\ accepted = <<>>
  /\ weatherCache = Obj(NoFields)
  /\ ComputedAt(11)
  /\ predictionCache.predicted_power = Whole(0)
  /\ predictionCache.forecast[1].predicted = Whole(0)
  /\ predictionCache.confidence = Whole(90)

\* the parts of a forecast C25 compares
Content(c) ==
  [predicted_power |-> c.predicted_power, confidence |-> c.confidence,
   peak_hour |-> c.peak_hour, forecast |-> c.forecast]

\* C25: the content of a computed forecast is determined by the power of the
\* latest reading, the clouds of the latest weather snapshot and the hour:
\* it is the forecast of a reading and a snapshot that hold nothing but these
\* two members, whatever the other fields and the previous forecast are.
C25_ForecastPure ==
  [][PredictionStep =>
       \E hour \in Hours :
         Content(predictionCache') =
           Content(forecastOf(Obj([power |-> Get(latestReading, "power")]),
                              Obj([clouds |-> Get(weatherCache, "clouds")]),
                              hour, 0))]_vars

\* the forecast computed at hour 11 from the power 10 reading in dim light,
\* under 40% clouds, after an earlier forecast: the one the reading in full
\* light gives
C25_Witness ==
  /\ Len(accepted) = 2
  /\ accepted[1].line = LineNegative /\ accepted[2].line = LineDim
  /\ Get(weatherCache, "clouds") = Whole(40)
  /\ ComputedAt(11)
  /\ predictionCache.timestamp = Whole(1)
  /\ Content(predictionCache) =
       Content(forecastOf(LineValid10.parsed.val, weatherCache, 11, 0))
  /\ predictionCache.predicted_power = Num(7200)

\* C26: a recomputation replaces the forecast slot wholesale: the slot then
\* holds exactly the object computed in that run, with predicted_power,
\* confidence, peak_hour 12, six entries and the time of the run, and nothing
\* of the previous forecast.
C26_ForecastReplacedWhole ==
  [][PredictionStep =>
       /\ DOMAIN predictionCache' =
            {"predicted_power", "confidence", "peak_hour", "forecast", "timestamp"}
       /\ predictionCache'.peak_hour = Whole(12)
       /\ Len(predictionCache'.forecast) = 6
       /\ predictionCache'.timestamp = Whole(now)
       /\ \E hour \in Hours :
            predictionCache' = forecastOf(latestReading, weatherCache, hour, now)]_vars

\* the zero forecast of startup has been replaced by the forecast computed
\* at time 1, hour 11, from the power 10 reading under a clear sky
C26_Witness ==
  /\ Get(latestReading, "power") = Whole(10)
  /\ Get(weatherCache, "clouds") = Whole(0)
  /\ predictionCache = forecastOf(latestReading, weatherCache, 11, 1)
  /\ predictionCache.forecast[1].predicted = Whole(11)
  /\ predictionCache.forecast[6].predicted = Num(3300)

\* C27: an outstanding weather fetch, also one that is never answered,
\* blocks nothing: while the process runs with a fetch in flight, a line that
\* arrives on the open port is processed and replaces latestReading, the
\* forecast job runs and replaces the forecast, and the routes that read the
\* slots and the health route answer.
C27_JobsDoNotBlock ==
  (process = "running" /\ started /\ fetching > 0) =>
    /\ (serial = "open" /\ Len(accepted) < MaxReadings) =>
         ENABLED (/\ OnData(LineValid5, {TRUE}, {TRUE})
                  /\ latestReading' = stamp(LineValid5.parsed.val, now))
    /\ ENABLED (/\ CronPrediction(11, {TRUE})
                /\ predictionCache' = forecastOf(latestReading, weatherCache, 11, now))
    /\ \A endpoint \in SlotRoutes \cup {"health"} :
         ENABLED Request(endpoint, NoLimit, TRUE)
    /\ ENABLED (Request("live", NoLimit, TRUE) /\ reply'.body.data = latestReading)

\* with the startup request and a second one never answered, two readings
\* were ingested, the forecast was recomputed and /api/live answered
C27_Witness ==
  /\ fetching = 2 /\ silent = 2
  /\ Len(accepted) = 2
  /\ accepted[2].at = 1
  /\ predictionCache.timestamp = Whole(1)
  /\ ComputedAt(11)
  /\ predictionCache.predicted_power.n > 0
  /\ reply.endpoint = "live"
  /\ reply.body.data = ReadingOf(accepted[2])

\* C28: History is append-only: every step of ingestion, of a job or of a
\* query leaves the entries History had, in their places and with their
\* fields, and History changes only when the 'data' handler pushes the
\* reading it has just stored at the end.
C28_HistoryAppendOnly ==
  [][/\ Len(db.history') >= Len(db.history)
     /\ SubSeq(db.history', 1, Len(db.history)) = db.history
     /\ db.history' # db.history =>
          /\ lineSeq' # lineSeq
          /\ db.history' = Append(db.history, latestReading')]_vars

\* two readings pushed at different times, then the weather was replaced,
\* the forecast recomputed and the history queried
C28_Witness ==
  /\ Len(db.history) = 2 /\ Len(accepted) = 2
  /\ db.history[1] = ReadingOf(accepted[1])
  /\ db.history[2] = ReadingOf(accepted[2])
  /\ accepted[1].line # accepted[2].line
  /\ accepted[1].at = 0 /\ accepted[2].at = 1
  /\ Get(weatherCache, "clouds") = Whole(40)
  /\ ComputedAt(11) /\ predictionCache.timestamp = Whole(1)
  /\ predictionCache.predicted_power.n > 0
  /\ reply.endpoint = "history"
  /\ Len(reply.body.data) = 2

\* C29: once the server listens, /api/health answers in every state, also
\* after the serial port failed to open or was disconnected, after failed
\* weather fetches and after failed store writes, with status "ok" and the
\* uptime of the process.
C29_HealthAlwaysAnswers ==
  started => ENABLED (/\ Request("health", NoLimit, TRUE)
                      /\ reply'.body.status = "ok"
                      /\ reply'.body.uptime = now)

\* C30: both jobs run once eagerly at startup: until the port is bound no
\* weather fetch is issued and no forecast computed; the step that binds it
\* issues exactly one fetch and computes one forecast from the slots of that
\* moment; every further fetch or forecast is a run of a schedule after that.
C30_EagerAtStartup ==
  [][/\ ~started => (fetching = 0 /\ predictionCache.timestamp = Undefined)
     /\ (~started /\ started') =>
          /\ fetching' = 1
          /\ \E hour \in Hours :
               predictionCache' = forecastOf(latestReading, weatherCache, hour, now)
     /\ (started' = started /\ (fetching' > fetching \/ PredictionStep)) => started]_vars

\* after the startup runs (the store holds the forecast of the startup run)
\* a tick of the weather schedule issued a second fetch and a tick of the
\* forecast schedule recomputed the forecast
C30_Witness ==
  /\ started /\ process = "running"
  /\ fetching = 2
  /\ "timestamp" \in DOMAIN db.prediction
  /\ db.prediction.timestamp = Whole(0)
  /\ db.prediction.forecast[1].hour = 12
  /\ ComputedAt(21)
  /\ predictionCache.timestamp = Whole(1)

\* C31: for every line accepted as a reading the handler replaces
\* latestReading with the reading and issues exactly one History append of
\* that same reading; no reading becomes latestReading without its append.
\* (The store acknowledges every append it is given, so an append that was
\* issued is in History.)
C31_ReadingThenOneAppend ==
  [][(LineStep /\ ReadingLine(lastLine')) =>
       /\ latestReading' = ReadingOf([line |-> lastLine', at |-> now])
       /\ db.history' = Append(db.history, latestReading')]_vars

\* C32: the three slots are updated independently: a step of the 'data'
\* handler leaves the weather and the forecast as they were, the completion
\* of a weather fetch leaves the reading and the forecast, a recomputation of
\* the forecast leaves the reading and the weather; ingestion never
\* recomputes the forecast.
C32_SlotsIndependent ==
  [][/\ LineStep =>
          (weatherCache' = weatherCache /\ predictionCache' = predictionCache)
     /\ fetching' < fetching =>
          (latestReading' = latestReading /\ predictionCache' = predictionCache)
     /\ PredictionStep =>
          (latestReading' = latestReading /\ weatherCache' = weatherCache)]_vars

\* a reader of /api/dashboard sees the second reading next to a forecast that
\* was computed from the first one
C32_Witness ==
  /\ Len(accepted) = 2
  /\ Get(ReadingOf(accepted[1]), "power") # Get(ReadingOf(accepted[2]), "power")
  /\ Get(weatherCache, "clouds") = Whole(40)
  /\ reply.endpoint = "dashboard"
  /\ reply.body.data.live = ReadingOf(accepted[2])
  /\ reply.body.data.prediction.forecast # <<>>
  /\ \E t \in 0..MaxClock :
       /\ reply.body.data.prediction =
            forecastOf(ReadingOf(accepted[1]), weatherCache, 11, t)
       /\ reply.body.data.prediction #
            forecastOf(ReadingOf(accepted[2]), weatherCache, 11, t)

\* the values JavaScript takes for false
Falsy(p) == p \in {Undefined, Null, NaN, Str(""), Num(0), Bool(FALSE)}

ZeroForecast(c) ==
  /\ c.predicted_power = Whole(0)
  /\ c.confidence = Whole(90)
  /\ DOMAIN c.forecast = 1..6
  /\ \A i \in 1..6 : c.forecast[i].predicted = Whole(0)

\* C34: the forecast computed at startup is computed from the initial
\* reading and the empty weather slot: it has predicted_power 0, six entries
\* with predicted 0 and confidence 90; and while it is the only forecast
\* computed, it stays in the slot until a tick of the forecast schedule
\* (no line and no weather answer changes it).
C34_FirstForecastZero ==
  [][/\ (~started /\ started') => ZeroForecast(predictionCache')
     /\ (started /\ PredictionStep) =>
          \E hour \in Hours : CronPrediction(hour, Acks)]_vars

\* a reading with power and a weather snapshot with clouds have arrived and
\* time has passed, and the slot still holds the startup forecast
C34_Witness ==
  /\ started /\ now = 1
  /\ Get(latestReading, "power") = Num(6000)
  /\ Get(weatherCache, "clouds") = Whole(40)
  /\ predictionCache.timestamp = Whole(0)
  /\ ZeroForecast(predictionCache)
  /\ db.prediction = predictionCache

C36_MirrorAgrees ==
  [][/\ latestReading' # latestReading => db.live' = latestReading'
     /\ weatherCache' # weatherCache => db.weather' = weatherCache'
     /\ predictionCache' # predictionCache => db.prediction' = predictionCache'
     /\ db.live' # db.live => db.live' = latestReading'
     /\ db.weather' # db.weather => db.weather' = weatherCache'
     /\ db.prediction' # db.prediction => db.prediction' = predictionCache'
     /\ (LineStep /\ ~ReadingLine(lastLine')) => db' = db
     /\ (fetching' < fetching /\ lastResp' \in FailedResponses) => db' = db]_vars

\* C37: in the firmware the commanded angles stay in range after any
\* sequence of steps, for the sensor values of the samples: angleH in
\* [0,180] and angleV in [60,120] in solar_tracker.ino, pos in [0,180] in the
\* single-servo sketch; every telemetry line printed carries angleH in
\* [0,180], angleV in [30,150] and light in [0,100].
C37_AnglesInRange ==
  /\ angleH \in SERVO_H_MIN..SERVO_H_MAX
  /\ angleV \in SERVO_V_MIN..SERVO_V_MAX
  /\ pos \in 0..180
  /\ \A i \in DOMAIN emitted.lines :
       /\ emitted.lines[i].angleH \in 0..180
       /\ emitted.lines[i].angleV \in 30..150
       /\ emitted.lines[i].light \in 0..100

\* the tracker was driven against both stops (light in the top-left corner
\* pushes both angles up) and then reported in full light
C37_Witness ==
  /\ sketch = "solar_tracker"
  /\ angleH = SERVO_H_MAX /\ angleV = SERVO_V_MAX
  /\ Len(emitted.lines) = 1
  /\ emitted.lines[1].angleH = 180 /\ emitted.lines[1].angleV = 120
  /\ emitted.lines[1].light = 100

\* a step of trackSun
TrackStep == emitted'.by = "trackSun" /\ board' # board

\* what C38 says of one axis: angle before and after, the error of the axis,
\* the stops, whether the servo was written
AxisStep(before, after, error, low, high, written) ==
  /\ abs(after - before) <= SERVO_STEP
  /\ after # before => abs(error) > TOLERANCE
  /\ after > before => error > 0
  /\ after < before => error < 0
  /\ (error > TOLERANCE /\ before < high) => after = before + SERVO_STEP
  /\ (error < -TOLERANCE /\ before > low) => after = before - SERVO_STEP
  /\ abs(error) <= TOLERANCE => (after = before /\ ~written)

====
